---- MODULE Spec2Model ----
(***************************************************************************)
(* Model of the astrbot_plugin_flysim weather decoder:                     *)
(*   src/utils/weather.py  parse_weather, parse_clouds, _handle_response,  *)
(*                         parse_metar                                     *)
(*   src/main.py           MyPlugin.get_metar                              *)
(*                                                                         *)
(* Text is a sequence of tokens.  Input text is spelled one character per  *)
(* token (<<"R","A">> is "RA").  The Chinese text of the translation       *)
(* tables is spelled one token per Chinese character, written in pinyin    *)
(* with its tone digit (<<"yu3">> is the one-character text for rain), so  *)
(* that a translated character can never be taken for an input character.  *)
(* Fixed pieces of an output template (an emoji, "ft", "inHg") are one     *)
(* token each.                                                             *)
(***************************************************************************)
EXTENDS Integers, Sequences, FiniteSets, TLC

VARIABLES
    pc,            \* position of the running call ("idle" between calls)
    wx_string,     \* parse_weather: its argument
    prefix_cn,     \* parse_weather: translated prefix
    remaining,     \* parse_weather: untokenized remainder
    phenomena_cn,  \* parse_weather: list of produced tokens (each a text)
    literal_at,    \* history: indices of phenomena_cn appended by line 160
    wx_result,     \* parse_weather: returned text
    clouds,        \* parse_clouds: its argument
    clouds_result, \* parse_clouds: its outcome
    metar_data,    \* parse_metar: its argument
    metar_result,  \* parse_metar: its outcome
    icao_code,     \* get_metar: the command's argument
    result,        \* get_metar: what fetch_metar returned
    replies,       \* get_metar: the replies yielded so far
    events         \* history: what the running command has done, in order

wxvars == <<wx_string, prefix_cn, remaining, phenomena_cn, literal_at, wx_result>>

cloudvars == <<clouds, clouds_result>>

metarvars == <<metar_data, metar_result>>

cmdvars == <<icao_code, result, replies, events>>

vars == <<pc, wxvars, cloudvars, metarvars, cmdvars>>

----------------------------------------------------------------------------
(* Bounds of the explored inputs *)

MaxWxLen == 5

MaxBaseLen == 3

MaxVaried == 2

MaxIcaoLen == 5

WxChars == {"+", "T", "S", "R", "A", "Z"}

BaseChars == {"0", "5", "X", "-"}

CmdChars == {"z", "S", "1"}

\* Program constants: the status of a good answer (weather.py:249) and the
\* length of an ICAO code (main.py:26).
StatusOk == 200

IcaoLen == 4

----------------------------------------------------------------------------
(* Text helpers *)

Take(s, n) == SubSeq(s, 1, n)

Drop(s, n) == SubSeq(s, n + 1, Len(s))

RECURSIVE Join(_)
Join(list) == IF list = <<>> THEN <<>> ELSE Head(list) \o Join(Tail(list))

SeqsUpTo(S, n) == UNION {[1..k -> S] : k \in 0..n}

----------------------------------------------------------------------------
(* Translation tables, weather.py:12-52 *)

MODIFIERS ==
    [k \in { <<"-">>, <<>>, <<"+">>, <<"V","C">>, <<"M","I">>, <<"B","C">>,
             <<"P","R">>, <<"D","R">>, <<"B","L">>, <<"S","H">>, <<"T","S">>,
             <<"F","Z">> } |->
        CASE k = <<"-">>     -> <<"qing1", "wei1">>
          [] k = <<>>        -> <<>>
          [] k = <<"+">>     -> <<"qiang2">>
          [] k = <<"V","C">> -> <<"fu4", "jin4">>
          [] k = <<"M","I">> -> <<"qian3">>
          [] k = <<"B","C">> -> <<"san3", "pian4">>
          [] k = <<"P","R">> -> <<"bu4", "fen4">>
          [] k = <<"D","R">> -> <<"di1", "chui1">>
          [] k = <<"B","L">> -> <<"gao1", "chui1">>
          [] k = <<"S","H">> -> <<"zhen4", "xing4">>
          [] k = <<"T","S">> -> <<"lei2", "bao4">>
          [] k = <<"F","Z">> -> <<"dong4">>]

WEATHER_PHENOMENA ==
    [k \in { <<"D","Z">>, <<"R","A">>, <<"S","N">>, <<"S","G">>, <<"I","C">>,
             <<"P","E">>, <<"G","R">>, <<"G","S">>, <<"B","R">>, <<"F","G">>,
             <<"F","U">>, <<"V","A">>, <<"D","U">>, <<"S","A">>, <<"H","Z">>,
             <<"P","O">>, <<"F","C">>, <<"D","S">>, <<"S","Q">>, <<"S","S">> } |->
        CASE k = <<"D","Z">> -> <<"mao2", "mao2", "yu3">>
          [] k = <<"R","A">> -> <<"yu3">>
          [] k = <<"S","N">> -> <<"xue3">>
          [] k = <<"S","G">> -> <<"mi3", "xue3">>
          [] k = <<"I","C">> -> <<"bing1", "zhen1">>
          [] k = <<"P","E">> -> <<"bing1", "li4">>
          [] k = <<"G","R">> -> <<"bing1", "bao2">>
          [] k = <<"G","S">> -> <<"xiao3", "bing1", "li4">>
          [] k = <<"B","R">> -> <<"qing1", "wu4">>
          [] k = <<"F","G">> -> <<"wu4">>
          [] k = <<"F","U">> -> <<"yan1">>
          [] k = <<"V","A">> -> <<"huo3", "shan1", "hui1">>
          [] k = <<"D","U">> -> <<"fu2", "chen2">>
          [] k = <<"S","A">> -> <<"sha1">>
          [] k = <<"H","Z">> -> <<"mai2">>
          [] k = <<"P","O">> -> <<"chen2", "juan3", "feng1">>
          [] k = <<"F","C">> -> <<"lou4", "dou3", "yun2">>
          [] k = <<"D","S">> -> <<"chen2", "bao4">>
          [] k = <<"S","Q">> -> <<"biao1">>
          [] k = <<"S","S">> -> <<"sha1", "bao4">>]

----------------------------------------------------------------------------
(* parse_weather, weather.py:81-170 *)

\* The alternatives of the optional first group of the pattern at line 111.
PrefixAlternatives ==
    { <<"V","C">>, <<"M","I">>, <<"B","C">>, <<"P","R">>, <<"D","R">>,
      <<"B","L">>, <<"S","H">>, <<"T","S">>, <<"F","Z">>, <<"+">>, <<"-">> }

\* The line break character, written as one token.
LF == "LF"

\* re.match(r"^(VC|...|\+|-)?(.*)$", wx_string) matches, line 111: "." takes
\* no line break and "$" stands at the end or before a last line break, so
\* the match fails exactly when a line break is not the last character.
RegexMatches(s) == \A i \in 1..Len(s) : s[i] = LF => i = Len(s)

\* group(1) or "", line 115: the optional group is greedy and (.*) accepts
\* any remainder, so the group is taken whenever the text starts with one of
\* its alternatives.
MatchPrefix(s) ==
    IF Len(s) >= 2 /\ Take(s, 2) \in PrefixAlternatives THEN Take(s, 2)
    ELSE IF Len(s) >= 1 /\ Take(s, 1) \in PrefixAlternatives THEN Take(s, 1)
    ELSE <<>>

\* group(2), line 116: what follows the prefix, without a last line break.
RestOf(s, prefix) ==
    LET after == Drop(s, Len(prefix))
    IN  IF after # <<>> /\ after[Len(after)] = LF THEN Take(after, Len(after) - 1)
        ELSE after

\* Lines 119-121.
PrefixCn(prefix) == IF prefix \in DOMAIN MODIFIERS THEN MODIFIERS[prefix] ELSE <<>>

\* The body with a fallback that skips one character and goes on.
LoopBodySkipOne(rem, phen) ==
    IF Len(rem) >= 2 /\ Take(rem, 2) \in DOMAIN WEATHER_PHENOMENA
    THEN [remaining |-> Drop(rem, 2),
          phenomena_cn |-> Append(phen, WEATHER_PHENOMENA[Take(rem, 2)]),
          brk |-> FALSE]
    ELSE [remaining |-> Drop(rem, 1),
          phenomena_cn |-> Append(phen, Take(rem, 1)),
          brk |-> FALSE]

\* One pass through the body of the while loop, lines 129-161, from a
\* non-empty remainder.  brk: the body left the loop by the break of line 161.
\* The for loop of lines 151-157 only breaks out of itself and changes nothing.
LoopBody(rem, phen) ==
    IF Len(rem) >= 3 /\ Take(rem, 3) \in DOMAIN WEATHER_PHENOMENA
    THEN [remaining |-> Drop(rem, 3),
          phenomena_cn |-> Append(phen, WEATHER_PHENOMENA[Take(rem, 3)]),
          brk |-> FALSE]
    ELSE IF Len(rem) >= 2 /\ Take(rem, 2) \in DOMAIN WEATHER_PHENOMENA
    THEN [remaining |-> Drop(rem, 2),
          phenomena_cn |-> Append(phen, WEATHER_PHENOMENA[Take(rem, 2)]),
          brk |-> FALSE]
    ELSE [remaining |-> rem,
          phenomena_cn |-> Append(phen, rem),
          brk |-> TRUE]

\* The result put together without the translated prefix.
CombineDropPrefix(w, pcn, phen) == IF phen # <<>> THEN Join(phen) ELSE w

\* Lines 163-170.
Combine(w, pcn, phen) ==
    IF pcn # <<>> /\ phen # <<>> THEN pcn \o Join(phen)
    ELSE IF phen # <<>> THEN Join(phen)
    ELSE w

\* The while loop run to its end, as a function.
RECURSIVE Tokenize(_, _)
Tokenize(rem, phen) ==
    IF rem = <<>> THEN phen
    ELSE LET b == LoopBody(rem, phen)
         IN  IF b.brk THEN b.phenomena_cn
             ELSE Tokenize(b.remaining, b.phenomena_cn)

\* The early return handing back the code instead of its translation.
WholeMatchEcho(w) == w

\* The early return of lines 104-105.
WholeMatch(w) == WEATHER_PHENOMENA[w]

\* parse_weather as a function (what parse_metar calls at line 302).
ParseWeather(w) ==
    IF w = <<>> THEN <<>>
    ELSE IF w \in DOMAIN WEATHER_PHENOMENA THEN WholeMatch(w)
    ELSE IF ~RegexMatches(w) THEN w
    ELSE LET prefix == MatchPrefix(w)
         IN  Combine(w, PrefixCn(prefix), Tokenize(RestOf(w, prefix), <<>>))

\* Arguments explored: every text over WxChars up to MaxWxLen, every key of
\* WEATHER_PHENOMENA alone, every prefix alternative alone, followed by a key
\* and followed by an unknown code, the examples of the docstring, and texts
\* with a line break.
WxInputs ==
    SeqsUpTo(WxChars, MaxWxLen)
        \cup DOMAIN WEATHER_PHENOMENA
        \cup PrefixAlternatives
        \cup {p \o k : p \in PrefixAlternatives, k \in DOMAIN WEATHER_PHENOMENA}
        \cup {p \o <<"Z","Z">> : p \in PrefixAlternatives}
        \cup {<<"+","T","S","R","A">>, <<"M","I","F","G">>, <<"V","C","F","G">>}
        \cup {<<LF>>, <<"+", LF>>, <<"R","A", LF>>, <<"R","A", LF, LF>>,
              <<"+","Z", LF, "Z">>, <<"+","Z","Z", LF>>, <<"+", LF, "R","A">>}

----------------------------------------------------------------------------
(* Values of the decoded JSON record.  ty is the Python type; a key that   *)
(* the dict does not hold is "absent".  s: the text of a str; n: the value *)
(* of an int, or of a float in hundredths; l: the items of a list, or the  *)
(* key -> value map of a dict.                                             *)

Absent == [ty |-> "absent", s |-> <<>>, n |-> 0, l |-> <<>>]

Null == [ty |-> "null", s |-> <<>>, n |-> 0, l |-> <<>>]

Str(t) == [ty |-> "str", s |-> t, n |-> 0, l |-> <<>>]

Num(i) == [ty |-> "int", s |-> <<>>, n |-> i, l |-> <<>>]

Flt(h) == [ty |-> "float", s |-> <<>>, n |-> h, l |-> <<>>]

Lst(items) == [ty |-> "list", s |-> <<>>, n |-> 0, l |-> items]

Dict(map) == [ty |-> "dict", s |-> <<>>, n |-> 0, l |-> map]

\* Python truth value.
Truthy(v) ==
    CASE v.ty = "str"   -> v.s # <<>>
      [] v.ty = "int"   -> v.n # 0
      [] v.ty = "float" -> v.n # 0
      [] v.ty = "list"  -> v.l # <<>>
      [] v.ty = "dict"  -> \E k \in DOMAIN v.l : v.l[k].ty # "absent"
      [] OTHER          -> FALSE

\* v == "<text>" in Python: only a str equals a str.
IsText(v, t) == v.ty = "str" /\ v.s = t

\* d.get(k, default) on a dict d.
Get(d, k, default) == IF d.l[k].ty = "absent" THEN default ELSE d.l[k]

\* Hashable values (a list or a dict as a table key raises TypeError).
Hashable(v) == v.ty \notin {"list", "dict"}

TwoDigits(k) == IF k < 10 THEN "0" \o ToString(k) ELSE ToString(k)

\* f"{x:.2f}" of a number: x is hundredths here.
Fixed2(h) ==
    IF h < 0 THEN <<"-", ToString((-h) \div 100), ".", TwoDigits((-h) % 100)>>
    ELSE <<ToString(h \div 100), ".", TwoDigits(h % 100)>>

\* str(x) of a float given in hundredths: shortest form, at least one decimal.
FloatRepr(h) ==
    LET a == IF h < 0 THEN -h ELSE h
        frac == IF a % 10 = 0 THEN ToString((a % 100) \div 10) ELSE TwoDigits(a % 100)
    IN  (IF h < 0 THEN <<"-">> ELSE <<>>) \o <<ToString(a \div 100), ".", frac>>

\* f"{v}": the text str(v).
Render(v) ==
    CASE v.ty = "str"   -> v.s
      [] v.ty = "int"   -> <<ToString(v.n)>>
      [] v.ty = "float" -> FloatRepr(v.n)
      [] v.ty = "null"  -> <<"None">>
      [] v.ty = "list"  -> <<"[list]">>
      [] OTHER          -> <<"{dict}">>

\* The outcome of a call: a returned text, or an exception leaving the call.
Returned(t) == [raised |-> FALSE, text |-> t]

Raised == [raised |-> TRUE, text |-> <<>>]

NA == <<"N", "/", "A">>

----------------------------------------------------------------------------
(* parse_clouds, weather.py:55-70 and 173-216 *)

CLOUD_COVER ==
    [k \in { <<"F","E","W">>, <<"S","C","T">>, <<"B","K","N">>, <<"O","V","C">>,
             <<"S","K","C">>, <<"N","S","C">>, <<"C","L","R">>, <<"N","C","D">> } |->
        CASE k = <<"F","E","W">> -> <<"shao3", "yun2", "(1-2/8)">>
          [] k = <<"S","C","T">> -> <<"shu1", "yun2", "(3-4/8)">>
          [] k = <<"B","K","N">> -> <<"duo1", "yun2", "(5-7/8)">>
          [] k = <<"O","V","C">> -> <<"yin1", "tian1", "(8/8)">>
          [] k = <<"S","K","C">> -> <<"qing2", "kong1">>
          [] k = <<"N","S","C">> -> <<"wu2", "zhong4", "yao4", "yun2">>
          [] k = <<"C","L","R">> -> <<"wu2", "yun2">>
          [] k = <<"N","C","D">> -> <<"wu2", "yun2">>]

CLOUD_TYPES ==
    [k \in { <<"T","C","U">>, <<"C","B">> } |->
        CASE k = <<"T","C","U">> -> <<"ta3", "zhuang4", "ji1", "yun2">>
          [] k = <<"C","B">>     -> <<"ji1", "yu3", "yun2">>]

\* Line 183: the text returned for no clouds.
NoClouds == <<"wu2", "yun2">>

Digits == {"0", "1", "2", "3", "4", "5", "6", "7", "8", "9"}

DigitVal(c) ==
    CASE c = "0" -> 0 [] c = "1" -> 1 [] c = "2" -> 2 [] c = "3" -> 3
      [] c = "4" -> 4 [] c = "5" -> 5 [] c = "6" -> 6 [] c = "7" -> 7
      [] c = "8" -> 8 [] c = "9" -> 9

RECURSIVE DigitsVal(_)
DigitsVal(ds) ==
    IF ds = <<>> THEN 0 ELSE 10 * DigitsVal(Take(ds, Len(ds) - 1)) + DigitVal(ds[Len(ds)])

AllDigits(ds) == ds # <<>> /\ \A i \in 1..Len(ds) : ds[i] \in Digits

\* int(base), line 199: ok is FALSE where int raises ValueError or TypeError.
\* A str is an optional sign and decimal digits (white space and "_" are
\* outside the explored characters); a float is cut toward zero.
IntOf(v) ==
    CASE v.ty = "int" -> [ok |-> TRUE, n |-> v.n]
      [] v.ty = "float" ->
            [ok |-> TRUE, n |-> IF v.n < 0 THEN -((-v.n) \div 100) ELSE v.n \div 100]
      [] v.ty = "str" ->
            IF v.s # <<>> /\ v.s[1] \in {"+", "-"}
            THEN IF AllDigits(Tail(v.s))
                 THEN [ok |-> TRUE,
                       n |-> IF v.s[1] = "-" THEN -DigitsVal(Tail(v.s))
                             ELSE DigitsVal(Tail(v.s))]
                 ELSE [ok |-> FALSE, n |-> 0]
            ELSE IF AllDigits(v.s) THEN [ok |-> TRUE, n |-> DigitsVal(v.s)]
                 ELSE [ok |-> FALSE, n |-> 0]
      [] OTHER -> [ok |-> FALSE, n |-> 0]

\* f"{x * 0.3048:.0f}" for an int x: the nearest whole number, a tie to the
\* even one, "-0" for a negative x that rounds to zero.
Metres(x) ==
    LET a == IF x < 0 THEN -x ELSE x
        q == (a * 3048) \div 10000
        r == (a * 3048) % 10000
        m == IF r > 5000 \/ (r = 5000 /\ q % 2 = 1) THEN q + 1 ELSE q
    IN  IF x < 0 THEN "-" \o ToString(m) ELSE ToString(m)

\* Line 201: the height clause built from base_int.
HeightClause(base_int) ==
    <<"yun2", "di3", ToString(base_int), "ft", "(", Metres(base_int), "m", ")">>

\* Lines 196-203.
HeightStr(base) ==
    IF Truthy(base) /\ ~IsText(base, NA)
    THEN IF IntOf(base).ok THEN HeightClause(IntOf(base).n)
         ELSE <<"yun2", "di3">> \o Render(base)
    ELSE <<>>

\* Lines 188-214 for one item c of the list.
LayerText(c) ==
    IF c.ty # "dict" THEN Raised
    ELSE LET cover == Get(c, "cover", Str(<<>>))
             base == Get(c, "base", Str(<<>>))
             cloud_type == Get(c, "cloudType", Str(<<>>))
         IN  IF ~Hashable(cover) \/ ~Hashable(cloud_type) THEN Raised
             ELSE LET cover_cn == IF cover.ty = "str" /\ cover.s \in DOMAIN CLOUD_COVER
                                  THEN CLOUD_COVER[cover.s] ELSE Render(cover)
                      type_str ==
                          IF cloud_type.ty = "str" /\ cloud_type.s \in DOMAIN CLOUD_TYPES
                          THEN CLOUD_TYPES[cloud_type.s]
                          ELSE IF cover.ty = "str" /\ cover.s \in DOMAIN CLOUD_TYPES
                          THEN CLOUD_TYPES[cover.s]
                          ELSE <<>>
                  IN  Returned(cover_cn \o HeightStr(base) \o type_str)

\* " / ".join(cloud_info), line 216.
RECURSIVE JoinSlash(_)
JoinSlash(list) ==
    IF list = <<>> THEN <<>>
    ELSE IF Len(list) = 1 THEN Head(list)
    ELSE Head(list) \o <<"/">> \o JoinSlash(Tail(list))

\* parse_clouds(c).  Iterating anything but a list of dicts raises: a number
\* is not iterable, and the items of a str or of a dict are strs without get.
ParseClouds(c) ==
    IF ~Truthy(c) THEN Returned(NoClouds)
    ELSE IF c.ty # "list" THEN Raised
    ELSE IF \E i \in 1..Len(c.l) : LayerText(c.l[i]).raised THEN Raised
    ELSE Returned(JoinSlash([i \in 1..Len(c.l) |-> LayerText(c.l[i]).text]))

----------------------------------------------------------------------------
(* parse_metar, weather.py:72-78 and 262-367.  A report is a sequence of   *)
(* lines; the first token of a line stands for its emoji and caption.      *)

Fields ==
    {"rawOb", "icaoId", "name", "reportTime", "wdir", "wspd", "wgst", "visib",
     "wxString", "clouds", "temp", "dewp", "altim", "fltCat"}

FLT_CAT ==
    [k \in { <<"V","F","R">>, <<"M","V","F","R">>, <<"I","F","R">>,
             <<"L","I","F","R">> } |->
        CASE k = <<"V","F","R">>     -> <<"green", "VFR", "mu4", "shi4">>
          [] k = <<"M","V","F","R">> -> <<"blue", "MVFR", "bian1", "yuan2">>
          [] k = <<"I","F","R">>     -> <<"red", "IFR", "yi2", "biao3">>
          [] k = <<"L","I","F","R">> -> <<"purple", "LIFR", "di1", "yi2", "biao3">>]

TwoDigitSet(lo, hi) == {TwoDigits(k) : k \in lo..hi}

\* datetime.fromisoformat(reportTime.replace("Z", "+00:00")) succeeds, line 278.
\* The text is spelled one token per calendar field and separator:
\* <<year, "-", month, "-", day, "T" or " ", hour, ":", minute, ":", second>>
\* and an optional zone token.
IsoOk(t) ==
    /\ Len(t) \in {11, 12}
    /\ t[1] \in {ToString(y) : y \in 1000..9999} /\ t[2] = "-" /\ t[3] \in TwoDigitSet(1, 12)
    /\ t[4] = "-" /\ t[5] \in TwoDigitSet(1, 28)
    /\ t[6] \in {"T", " "}
    /\ t[7] \in TwoDigitSet(0, 23) /\ t[8] = ":" /\ t[9] \in TwoDigitSet(0, 59)
    /\ t[10] = ":" /\ t[11] \in TwoDigitSet(0, 59)
    /\ Len(t) = 12 => t[12] \in {"Z", "+00:00", "+08:00"}

\* Lines 274-281: the reformatted time, or the value as it came on any failure
\* (also a value that is no str, whose replace raises inside the bare except).
TimeText(reportTime) ==
    IF reportTime.ty = "str" /\ ~IsText(reportTime, NA) /\ IsoOk(reportTime.s)
    THEN LET t == reportTime.s
         IN  <<t[1], "-", t[3], "-", t[5], t[7], ":", t[9], "UTC">>
    ELSE Render(reportTime)

\* Lines 284-293.
WindText(windDir, windSpeed, gust) ==
    IF IsText(windDir, <<"V","R","B">>) THEN <<"feng1", "xiang4", "bu4", "ding4">>
    ELSE IF IsText(windDir, NA) \/ IsText(windSpeed, NA) THEN <<"wu2", "feng1">>
    ELSE Render(windDir) \o <<"deg", "/">> \o Render(windSpeed) \o <<"kt">>
         \o (IF Truthy(gust) THEN <<"zhen4", "feng1">> \o Render(gust) \o <<"kt">>
             ELSE <<>>)

\* Lines 296-298.
VisText(vis) == IF IsText(vis, NA) THEN NA ELSE Render(vis) \o <<"statute", "miles">>

\* re.search(r"A(\d{4})", raw_ob), line 321: the start of the leftmost match,
\* 0 for no match.
SearchA4(t) ==
    LET hits == {i \in 1..Len(t) :
                    /\ t[i] = "A"
                    /\ i + 4 <= Len(t)
                    /\ \A j \in 1..4 : t[i + j] \in Digits}
    IN  IF hits = {} THEN 0 ELSE CHOOSE i \in hits : \A j \in hits : i <= j

\* Lines 321-327, for a numeric altim (h: its value in hundredths).
AltimStr(h, raw_text) ==
    LET at == SearchA4(raw_text)
    IN  IF at # 0
        THEN Fixed2(h) \o <<"inHg", "A">> \o Fixed2(DigitsVal(SubSeq(raw_text, at + 1, at + 4)))
        ELSE Fixed2(h) \o <<"inHg">>

\* The temperature line written whether or not the field is there.
TempLinesAlways(temp) == << <<"L_temp">> \o Render(temp) \o <<"degC">> >>

\* Lines 349-350.
TempLines(temp) ==
    IF IsText(temp, NA) THEN <<>> ELSE << <<"L_temp">> \o Render(temp) \o <<"degC">> >>

\* Lines 352-353.
DewpLines(dewp) ==
    IF IsText(dewp, NA) THEN <<>> ELSE << <<"L_dewp">> \o Render(dewp) \o <<"degC">> >>

\* Lines 332-342: the raw line when raw_ob is true, then the four lines that
\* are always written.
HeadLines(raw_ob, name, icao, reportTime, wind, vis) ==
    (IF Truthy(raw_ob) THEN << <<"L_raw">> \o Render(raw_ob) >> ELSE <<>>)
    \o << <<"L_station">> \o Render(name) \o <<"(">> \o Render(icao) \o <<")">>,
          <<"L_time">> \o reportTime,
          <<"L_wind">> \o wind,
          <<"L_vis">> \o vis >>

\* Lines 359-362.
FltCatLines(flt_cat) ==
    IF Truthy(flt_cat) /\ flt_cat.ty = "str" /\ flt_cat.s \in DOMAIN FLT_CAT
    THEN << <<"L_fltcat">> \o FLT_CAT[flt_cat.s] >>
    ELSE <<>>

\* Line 367: the text returned by the except clause.
ParseFailure == << <<"jie3", "xi1", "shi1", "bai4", ":", "<exception message>">> >>

\* Lines 266-364, the body of the try: the report, or Raised where a
\* statement of the body raises.
ParseMetarBody(d) ==
    IF d.ty # "dict" THEN Raised
    ELSE
    LET raw_ob == Get(d, "rawOb", Str(<<>>))
        icao == Get(d, "icaoId", Str(NA))
        name == Get(d, "name", Str(NA))
        reportTime == TimeText(Get(d, "reportTime", Str(NA)))
        wind == WindText(Get(d, "wdir", Str(NA)), Get(d, "wspd", Str(NA)),
                         Get(d, "wgst", Str(<<>>)))
        vis == VisText(Get(d, "visib", Str(NA)))
        wx_raw == Get(d, "wxString", Str(<<>>))
        wx_raises == Truthy(wx_raw) /\ wx_raw.ty # "str"
        wx == IF Truthy(wx_raw) /\ wx_raw.ty = "str" THEN ParseWeather(wx_raw.s) ELSE <<>>
        clouds_str == ParseClouds(Get(d, "clouds", Lst(<<>>)))
        temp == Get(d, "temp", Str(NA))
        dewp == Get(d, "dewp", Str(NA))
        altim == Get(d, "altim", Str(NA))
        altim_raises == ~IsText(altim, NA)
                        /\ (raw_ob.ty # "str" \/ altim.ty \notin {"int", "float"})
        altim_lines ==
            IF IsText(altim, NA) \/ altim_raises THEN <<>>
            ELSE << <<"L_altim">>
                    \o AltimStr(IF altim.ty = "int" THEN altim.n * 100 ELSE altim.n,
                                raw_ob.s) >>
        flt_cat == Get(d, "fltCat", Str(<<>>))
        flt_raises == Truthy(flt_cat) /\ ~Hashable(flt_cat)
    IN  IF wx_raises \/ clouds_str.raised \/ altim_raises \/ flt_raises THEN Raised
        ELSE Returned(
                HeadLines(raw_ob, name, icao, reportTime, wind, vis)
                \o (IF wx # <<>> THEN << <<"L_wx">> \o wx >> ELSE <<>>)
                \o << <<"L_cloud">> \o clouds_str.text >>
                \o TempLines(temp)
                \o DewpLines(dewp)
                \o altim_lines
                \o FltCatLines(flt_cat))

\* The body without the try around it.
CatchNothing(outcome) == outcome

\* Lines 264 and 366-367: the try around the body.
Catch(outcome) == IF outcome.raised THEN Returned(ParseFailure) ELSE outcome

ParseMetar(d) == Catch(ParseMetarBody(d))

----------------------------------------------------------------------------
(* Arguments explored for parse_clouds and parse_metar *)

Layer(cover, base, cloud_type) ==
    Dict([cover |-> cover, base |-> base, cloudType |-> cloud_type])

BaseOptions ==
    {Absent, Null, Str(NA), Num(0), Num(50)}
        \cup {Str(t) : t \in SeqsUpTo(BaseChars, MaxBaseLen)}

CoverOptions == {Absent, Str(<<"B","K","N">>), Str(<<"C","B">>), Str(<<"X","X">>)}

TypeOptions == {Absent, Str(<<"T","C","U">>), Str(<<"X">>)}

Layers == {Layer(c, b, t) : c \in CoverOptions, b \in BaseOptions, t \in TypeOptions}

Bkn050 == Layer(Str(<<"B","K","N">>), Str(<<"0","5","0">>), Absent)

CoreItems ==
    {Bkn050,
     Layer(Str(<<"C","B">>), Num(50), Absent),
     Layer(Str(<<"B","K","N">>), Str(<<"X">>), Str(<<"T","C","U">>)),
     Str(<<"j","u","n","k">>)}

CloudInputs ==
    {Absent, Null, Num(3), Str(<<"x">>), Lst(<<>>)}
        \cup {Lst(<<a>>) : a \in Layers \cup CoreItems}
        \cup {Lst(<<a, b>>) : a \in CoreItems, b \in CoreItems}

IsoTime(month, zone) ==
    <<"2024", "-", month, "-", "01", "T", "12", ":", "30", ":", "00">> \o zone

FieldOptions(f) ==
    CASE f = "rawOb" ->
            {Absent, Num(7),
             Str(<<"Z","S","S","S"," ","Q","1","0","1","3">>),
             Str(<<"Z","S","S","S"," ","A","2","9","9","2">>),
             Str(<<"Z","S","S","S"," ","A","2","9","9","2","5">>),
             Str(<<"A","2","9"," ","K","A","0","2","9","9"," ">>)}
      [] f = "icaoId" -> {Absent, Str(<<"Z","S","S","S">>)}
      [] f = "name" -> {Absent, Str(<<"Hongqiao">>)}
      [] f = "reportTime" ->
            {Absent, Num(1714566600), Str(IsoTime("05", <<"Z">>)),
             Str(IsoTime("05", <<>>)), Str(IsoTime("13", <<"Z">>)),
             Str(<<"y","e","s","t","e","r","d","a","y">>)}
      [] f = "wdir" -> {Absent, Str(<<"V","R","B">>), Num(270)}
      [] f = "wspd" -> {Absent, Num(5)}
      [] f = "wgst" -> {Absent, Num(12)}
      [] f = "visib" -> {Absent, Num(10), Str(<<"6","+">>)}
      [] f = "wxString" ->
            {Absent, Num(7), Str(<<>>), Str(<<"R","A">>),
             Str(<<"+","T","S","R","A">>), Str(<<"Z","Z">>)}
      [] f = "clouds" ->
            {Absent, Null, Lst(<<>>), Lst(<<Bkn050>>),
             Lst(<<Layer(Str(<<"B","K","N">>), Str(<<"X">>), Absent)>>),
             Lst(<<Bkn050, Str(<<"j","u","n","k">>)>>),
             Lst(<<Bkn050, Layer(Str(<<"C","B">>), Num(50), Absent)>>)}
      [] f = "temp" -> {Absent, Num(22)}
      [] f = "dewp" -> {Absent, Num(18)}
      [] f = "altim" -> {Absent, Null, Flt(2992), Num(1013), Str(<<"a","b","c">>)}
      [] f = "fltCat" -> {Absent, Str(<<"V","F","R">>), Str(<<"X">>)}

\* A record without any key, and a record with every field well formed.
EmptyRecord == [f \in Fields |-> Absent]

TypicalRecord ==
    [f \in Fields |->
        CASE f = "rawOb" -> Str(<<"Z","S","S","S"," ","Q","1","0","1","3">>)
          [] f = "icaoId" -> Str(<<"Z","S","S","S">>)
          [] f = "name" -> Str(<<"Hongqiao">>)
          [] f = "reportTime" -> Str(IsoTime("05", <<"Z">>))
          [] f = "wdir" -> Num(270)
          [] f = "wspd" -> Num(5)
          [] f = "wgst" -> Num(12)
          [] f = "visib" -> Num(10)
          [] f = "wxString" -> Str(<<"R","A">>)
          [] f = "clouds" -> Lst(<<Bkn050>>)
          [] f = "temp" -> Num(22)
          [] f = "dewp" -> Num(18)
          [] f = "altim" -> Flt(2992)
          [] f = "fltCat" -> Str(<<"V","F","R">>)]

\* The fields in the order they are varied.
FieldOrder ==
    <<"rawOb", "icaoId", "name", "reportTime", "wdir", "wspd", "wgst", "visib",
      "wxString", "clouds", "temp", "dewp", "altim", "fltCat">>

\* The records that differ from b in at most k of the fields FieldOrder[i..].
RECURSIVE Variants(_, _, _)
Variants(b, k, i) ==
    IF k = 0 \/ i > Len(FieldOrder) THEN {b}
    ELSE Variants(b, k, i + 1)
         \cup UNION {Variants([b EXCEPT ![FieldOrder[i]] = v], k - 1, i + 1) :
                        v \in FieldOptions(FieldOrder[i]) \ {b[FieldOrder[i]]}}

\* Arguments explored: values that are no dict, and the records that differ in
\* at most k fields from the empty or from the typical record.
MetarInputs(k) ==
    {Null, Str(<<"x">>), Lst(<<>>)}
        \cup {Dict(r) : r \in Variants(EmptyRecord, k, 1) \cup Variants(TypicalRecord, k, 1)}

----------------------------------------------------------------------------
(* _handle_response, weather.py:235-259, and get_metar, main.py:20-43 *)

NoResult == [success |-> FALSE, data |-> Absent, error |-> <<>>]

\* error_messages, lines 239-247, and the fallback of line 258.
ErrorMessage(status) ==
    CASE status = 204 -> <<"no weather data for this airport">>
      [] status = 400 -> <<"bad request, check the ICAO code">>
      [] status = 404 -> <<"airport not found">>
      [] status = 429 -> <<"too many requests">>
      [] status = 500 -> <<"internal server error">>
      [] status = 502 -> <<"bad gateway">>
      [] status = 504 -> <<"gateway timeout">>
      [] OTHER -> <<"request failed, status", ToString(status)>>

\* A response: its status, whether response.json() decodes, and the decoded
\* value.
HandleResponse(response) ==
    IF response.status = StatusOk
    THEN IF ~response.json_ok
         THEN [success |-> FALSE, data |-> Absent,
               error |-> <<"data parse failed", "<exception message>">>]
         ELSE IF ~Truthy(response.data)
         THEN [success |-> FALSE, data |-> Absent,
               error |-> <<"no weather data for this airport">>]
         ELSE [success |-> TRUE, data |-> response.data, error |-> <<>>]
    ELSE [success |-> FALSE, data |-> Absent, error |-> ErrorMessage(response.status)]

\* str.upper() and str.isalpha() over the explored characters.
UpperChar(c) == CASE c = "z" -> "Z" [] c = "s" -> "S" [] OTHER -> c

Upper(t) == [i \in 1..Len(t) |-> UpperChar(t[i])]

Alphabetic == {"z", "Z", "s", "S"}

IsAlpha(t) == t # <<>> /\ \A i \in 1..Len(t) : t[i] \in Alphabetic

\* Line 26: the code passes the format check.
ValidIcao(code) == IsAlpha(code) /\ Len(code) = IcaoLen

\* result["data"][0], line 35: ok is FALSE where the subscript raises.
FirstOf(data) ==
    CASE data.ty = "list" /\ data.l # <<>> -> [ok |-> TRUE, v |-> data.l[1]]
      [] data.ty = "str" /\ data.s # <<>>  -> [ok |-> TRUE, v |-> Str(<<data.s[1]>>)]
      [] OTHER -> [ok |-> FALSE, v |-> Absent]

Reply(kind, body) == [kind |-> kind, body |-> body]

\* Lines 39-41.
ReportReply(metar_text) ==
    Reply("report", metar_text \o << <<"for reference only, the raw report prevails">> >>)

\* Lines 27-29 and 43.
ErrorReply(message) == Reply("error", << <<"[X]">> \o message >>)

Responses ==
    {[status |-> st, json_ok |-> TRUE, data |-> Absent] :
        st \in {204, 400, 404, 429, 500, 502, 504, 418}}
    \cup {[status |-> StatusOk, json_ok |-> FALSE, data |-> Absent]}
    \cup {[status |-> StatusOk, json_ok |-> TRUE, data |-> v] :
            v \in {Null, Lst(<<>>), Str(<<"o","k">>), Num(1),
                   Dict([error |-> Str(<<"n","o">>)]),
                   Lst(<<Str(<<"x">>)>>),
                   Lst(<<Dict(EmptyRecord)>>),
                   Lst(<<Dict(TypicalRecord)>>),
                   Lst(<<Dict([TypicalRecord EXCEPT !["altim"] = Str(<<"a","b","c">>)])>>)}}

CmdInputs == SeqsUpTo(CmdChars, MaxIcaoLen)

----------------------------------------------------------------------------
(* The state between calls *)

WxIdle ==
    /\ wx_string = <<>> /\ prefix_cn = <<>> /\ remaining = <<>>
    /\ phenomena_cn = <<>> /\ literal_at = {} /\ wx_result = <<>>

Init ==
    /\ pc = "idle"
    /\ WxIdle
    /\ clouds = Absent /\ clouds_result = Returned(<<>>)
    /\ metar_data = Absent /\ metar_result = Returned(<<>>)
    /\ icao_code = <<>> /\ result = NoResult /\ replies = <<>> /\ events = <<>>

----------------------------------------------------------------------------
(* parse_weather, step by step *)

\* A caller invokes parse_weather(w).
WxCall ==
    /\ pc = "idle"
    /\ \E w \in WxInputs : wx_string' = w
    /\ pc' = "wx_entry"
    /\ UNCHANGED <<prefix_cn, remaining, phenomena_cn, literal_at, wx_result>>
    /\ UNCHANGED <<cloudvars, metarvars, cmdvars>>

\* Lines 90-126: the early returns, the prefix match and the loop set-up.
WxEntry ==
    /\ pc = "wx_entry"
    /\ IF wx_string = <<>>
       THEN /\ wx_result' = <<>>
            /\ pc' = "wx_done"
            /\ UNCHANGED <<prefix_cn, remaining, phenomena_cn>>
       ELSE IF wx_string \in DOMAIN WEATHER_PHENOMENA
       THEN /\ wx_result' = WholeMatch(wx_string)
            /\ pc' = "wx_done"
            /\ UNCHANGED <<prefix_cn, remaining, phenomena_cn>>
       ELSE IF ~RegexMatches(wx_string)
       THEN /\ wx_result' = wx_string
            /\ pc' = "wx_done"
            /\ UNCHANGED <<prefix_cn, remaining, phenomena_cn>>
       ELSE LET prefix == MatchPrefix(wx_string)
            IN  /\ prefix_cn' = PrefixCn(prefix)
                /\ remaining' = RestOf(wx_string, prefix)
                /\ phenomena_cn' = <<>>
                /\ pc' = "wx_loop"
                /\ UNCHANGED wx_result
    /\ UNCHANGED <<wx_string, literal_at>>
    /\ UNCHANGED <<cloudvars, metarvars, cmdvars>>

\* One iteration of the while loop (line 128 found remaining non-empty).
WxLoopIter ==
    /\ pc = "wx_loop"
    /\ remaining # <<>>
    /\ LET b == LoopBody(remaining, phenomena_cn)
       IN  /\ remaining' = b.remaining
           /\ phenomena_cn' = b.phenomena_cn
           /\ literal_at' = IF b.brk THEN literal_at \cup {Len(b.phenomena_cn)}
                            ELSE literal_at
           /\ pc' = IF b.brk THEN "wx_combine" ELSE "wx_loop"
    /\ UNCHANGED <<wx_string, prefix_cn, wx_result>>
    /\ UNCHANGED <<cloudvars, metarvars, cmdvars>>

\* Line 128 finds remaining empty: the loop ends.
WxLoopExit ==
    /\ pc = "wx_loop"
    /\ remaining = <<>>
    /\ pc' = "wx_combine"
    /\ UNCHANGED <<wx_string, prefix_cn, remaining, phenomena_cn, literal_at, wx_result>>
    /\ UNCHANGED <<cloudvars, metarvars, cmdvars>>

\* Lines 163-170, as a step.
WxCombine ==
    /\ pc = "wx_combine"
    /\ wx_result' = Combine(wx_string, prefix_cn, phenomena_cn)
    /\ pc' = "wx_done"
    /\ UNCHANGED <<wx_string, prefix_cn, remaining, phenomena_cn, literal_at>>
    /\ UNCHANGED <<cloudvars, metarvars, cmdvars>>

\* The caller takes the result; the locals are gone.
WxReturn ==
    /\ pc = "wx_done"
    /\ pc' = "idle"
    /\ wx_string' = <<>> /\ prefix_cn' = <<>> /\ remaining' = <<>>
    /\ phenomena_cn' = <<>> /\ literal_at' = {} /\ wx_result' = <<>>
    /\ UNCHANGED <<cloudvars, metarvars, cmdvars>>

NextWx == WxCall \/ WxEntry \/ WxLoopIter \/ WxLoopExit \/ WxCombine \/ WxReturn

SpecWx == Init /\ [][NextWx]_vars

----------------------------------------------------------------------------
(* parse_clouds and parse_metar called on their own *)

CloudsCall ==
    /\ pc = "idle"
    /\ \E c \in CloudInputs : clouds' = c
    /\ pc' = "clouds_run"
    /\ UNCHANGED <<clouds_result, wxvars, metarvars, cmdvars>>

\* Lines 182-216.
CloudsRun ==
    /\ pc = "clouds_run"
    /\ clouds_result' = ParseClouds(clouds)
    /\ pc' = "clouds_done"
    /\ UNCHANGED <<clouds, wxvars, metarvars, cmdvars>>

CloudsReturn ==
    /\ pc = "clouds_done"
    /\ pc' = "idle"
    /\ clouds' = Absent /\ clouds_result' = Returned(<<>>)
    /\ UNCHANGED <<wxvars, metarvars, cmdvars>>

NextClouds == CloudsCall \/ CloudsRun \/ CloudsReturn

SpecClouds == Init /\ [][NextClouds]_vars

MetarCall ==
    /\ pc = "idle"
    /\ \E d \in MetarInputs(MaxVaried) : metar_data' = d
    /\ pc' = "metar_run"
    /\ UNCHANGED <<metar_result, wxvars, cloudvars, cmdvars>>

\* Lines 264-367.
MetarRun ==
    /\ pc = "metar_run"
    /\ metar_result' = ParseMetar(metar_data)
    /\ pc' = "metar_done"
    /\ UNCHANGED <<metar_data, wxvars, cloudvars, cmdvars>>

MetarReturn ==
    /\ pc = "metar_done"
    /\ pc' = "idle"
    /\ metar_data' = Absent /\ metar_result' = Returned(<<>>)
    /\ UNCHANGED <<wxvars, cloudvars, cmdvars>>

NextMetar == MetarCall \/ MetarRun \/ MetarReturn

SpecMetar == Init /\ [][NextMetar]_vars

----------------------------------------------------------------------------
(* The metar command, main.py:20-43 *)

\* The dispatcher calls get_metar(event, icao_code).
CmdReceive ==
    /\ pc = "idle"
    /\ \E c \in CmdInputs : icao_code' = c
    /\ pc' = "cmd_entry"
    /\ UNCHANGED <<result, replies, events, wxvars, cloudvars, metarvars>>

\* Lines 23-32: upper-case the code, check its format; either yield the format
\* error and return, or call fetch_metar and wait for it.
CmdValidate ==
    /\ pc = "cmd_entry"
    /\ icao_code' = Upper(icao_code)
    /\ IF ~ValidIcao(Upper(icao_code))
       THEN /\ replies' = Append(replies, ErrorReply(<<"bad ICAO code format">>))
            /\ events' = events \o <<"invalid", "reply">>
            /\ pc' = "cmd_done"
       ELSE /\ events' = events \o <<"valid", "fetch">>
            /\ pc' = "cmd_await"
            /\ UNCHANGED replies
    /\ UNCHANGED <<result, wxvars, cloudvars, metarvars>>

\* weather.py:219-224 and 235-259: the request is answered and
\* _handle_response builds the result.
CmdFetchReturns ==
    /\ pc = "cmd_await"
    /\ \E response \in Responses : result' = HandleResponse(response)
    /\ events' = Append(events, "fetched")
    /\ pc' = "cmd_render"
    /\ UNCHANGED <<icao_code, replies, wxvars, cloudvars, metarvars>>

\* weather.py:222-223: the session or the request raises (no connection, a
\* timeout); neither fetch_metar nor get_metar catches it.
CmdFetchRaises ==
    /\ pc = "cmd_await"
    /\ events' = Append(events, "raised")
    /\ pc' = "cmd_raised"
    /\ UNCHANGED <<icao_code, result, replies, wxvars, cloudvars, metarvars>>

\* main.py:34-43.
CmdRender ==
    /\ pc = "cmd_render"
    /\ IF result.success
       THEN IF FirstOf(result.data).ok
            THEN /\ replies' = Append(replies,
                        ReportReply(ParseMetar(FirstOf(result.data).v).text))
                 /\ events' = events \o <<"parse_metar", "reply">>
                 /\ pc' = "cmd_done"
            ELSE /\ events' = Append(events, "raised")
                 /\ pc' = "cmd_raised"
                 /\ UNCHANGED replies
       ELSE /\ replies' = Append(replies, ErrorReply(result.error))
            /\ events' = Append(events, "reply")
            /\ pc' = "cmd_done"
    /\ UNCHANGED <<icao_code, result, wxvars, cloudvars, metarvars>>

\* The generator is exhausted, or its exception has left it.
CmdEnd ==
    /\ pc \in {"cmd_done", "cmd_raised"}
    /\ pc' = "idle"
    /\ icao_code' = <<>> /\ result' = NoResult /\ replies' = <<>> /\ events' = <<>>
    /\ UNCHANGED <<wxvars, cloudvars, metarvars>>

NextCmd ==
    CmdReceive \/ CmdValidate \/ CmdFetchReturns \/ CmdFetchRaises \/ CmdRender \/ CmdEnd

SpecCmd == Init /\ [][NextCmd]_vars

LiveWx == SpecWx /\ WF_vars(WxLoopIter) /\ WF_vars(WxLoopExit)

----------------------------------------------------------------------------
(* Helpers of the properties *)

Range(t) == {t[i] : i \in 1..Len(t)}

\* sub occurs in t as a run of consecutive tokens.
Contains(t, sub) ==
    \E i \in 0..(Len(t) - Len(sub)) : SubSeq(t, i + 1, i + Len(sub)) = sub

\* The lines of a report that carry the caption.
LinesOf(report, caption) == {i \in 1..Len(report) : report[i][1] = caption}

----------------------------------------------------------------------------
(* parse_weather *)

\* C1: parse_weather("+TSRA") is the translation of "+" followed by the
\* translation of "TS" and the translation of "RA", with nothing between them
\* and no letter of the input left over.
C1_PlusTSRA ==
    (pc = "wx_done" /\ wx_string = <<"+","T","S","R","A">>)
        => wx_result = MODIFIERS[<<"+">>] \o MODIFIERS[<<"T","S">>]
                       \o WEATHER_PHENOMENA[<<"R","A">>]

\* C6: parse_weather of a key of WEATHER_PHENOMENA alone returns exactly the
\* key's translation.
C6_TableCodeAlone ==
    (pc = "wx_done" /\ wx_string \in DOMAIN WEATHER_PHENOMENA)
        => wx_result = WEATHER_PHENOMENA[wx_string]

C6_Witness ==
    pc = "wx_done" /\ wx_string = <<"S","S">> /\ wx_result = <<"sha1", "bao4">>

\* The call has ended without a translated phenomenon: the input is no table
\* key and every token produced, if any, is the literal remainder.
C7_NothingRecognised ==
    /\ pc = "wx_done"
    /\ wx_string \notin DOMAIN WEATHER_PHENOMENA
    /\ \A i \in 1..Len(phenomena_cn) : i \in literal_at

\* C7 as stated: whenever no phenomenon code is recognised after the optional
\* prefix, parse_weather returns its input unchanged.
C7_ReturnsInputUnchanged == C7_NothingRecognised => wx_result = wx_string

\* The input is a prefix alternative followed by at least one more character.
C7_PrefixThenMore(w, p) == Len(w) > Len(p) /\ Take(w, Len(p)) = p

\* C7 as amended: for an input without a line break, when no phenomenon code
\* is recognised after the optional prefix, parse_weather returns its input
\* unchanged if the input has no prefix or is a prefix alone, and otherwise
\* returns the translation of the prefix followed by the unchanged remainder.
C7_PassThroughAfterPrefix ==
    (C7_NothingRecognised /\ LF \notin Range(wx_string)) =>
        IF \E p \in PrefixAlternatives : C7_PrefixThenMore(wx_string, p)
        THEN \E p \in PrefixAlternatives :
                /\ C7_PrefixThenMore(wx_string, p)
                /\ wx_result = MODIFIERS[p] \o Drop(wx_string, Len(p))
        ELSE wx_result = wx_string

C7_Witness ==
    /\ C7_NothingRecognised
    /\ wx_string = <<"+","Z","Z">>
    /\ wx_result = <<"qiang2", "Z", "Z">>

\* One step taken from inside the while loop: it leaves the loop on an empty
\* remainder, or consumes a matched code of 2 or 3 characters and stays, or
\* appends the whole remainder as a literal token and leaves.
C10_Step ==
    pc = "wx_loop" =>
        \/ /\ remaining = <<>>
           /\ pc' = "wx_combine"
           /\ phenomena_cn' = phenomena_cn
        \/ \E n \in {2, 3} :
              /\ Len(remaining) >= n
              /\ Take(remaining, n) \in DOMAIN WEATHER_PHENOMENA
              /\ remaining' = Drop(remaining, n)
              /\ phenomena_cn' = Append(phenomena_cn, WEATHER_PHENOMENA[Take(remaining, n)])
              /\ literal_at' = literal_at
              /\ pc' = "wx_loop"
        \/ /\ remaining # <<>>
           /\ remaining' = remaining
           /\ phenomena_cn' = Append(phenomena_cn, remaining)
           /\ literal_at' = literal_at \cup {Len(phenomena_cn) + 1}
           /\ pc' = "wx_combine"

\* At most one literal token, the last one, and the loop is over once it exists.
C10_LiteralLast ==
    /\ Cardinality(literal_at) <= 1
    /\ \A i \in literal_at : i = Len(phenomena_cn) /\ pc \in {"wx_combine", "wx_done"}

\* C10: the tokenizing loop ends for every input; each iteration consumes 2 or
\* 3 characters after a table match or appends the untouched remainder as one
\* literal token and stops; at most one literal token is produced and it is
\* the last token.
C10_LoopTerminates ==
    /\ [][C10_Step]_vars
    /\ []C10_LiteralLast
    /\ (pc = "wx_loop") ~> (pc = "wx_combine")

C10_Witness ==
    /\ pc = "wx_combine"
    /\ Len(phenomena_cn) = 3
    /\ literal_at = {3}
    /\ remaining # <<>>

----------------------------------------------------------------------------
(* parse_clouds *)

\* The metres of a whole number of feet, to the nearest metre.
C2_Metres(ft) == (ft * 3048 + 5000) \div 10000

\* The item is a layer whose base is a non-negative integer.
C2_HasBase(item) ==
    /\ item.ty = "dict"
    /\ \/ item.l.base.ty = "str" /\ AllDigits(item.l.base.s)
       \/ item.l.base.ty = "int" /\ item.l.base.n > 0

C2_BaseOf(item) ==
    IF item.l.base.ty = "int" THEN item.l.base.n ELSE DigitsVal(item.l.base.s)

\* C2: for every layer whose base is a non-negative integer b in hundreds of
\* feet, the height clause shows b*100 feet and round(b*100*0.3048) metres;
\* {cover: "BKN", base: "050"} gives the BKN text and "5000ft (1524m)".
C2_HundredsOfFeet ==
    (pc = "clouds_done" /\ clouds.ty = "list" /\ ~clouds_result.raised) =>
        /\ \A i \in 1..Len(clouds.l) :
              C2_HasBase(clouds.l[i]) =>
                  Contains(clouds_result.text,
                           <<ToString(C2_BaseOf(clouds.l[i]) * 100), "ft", "(",
                             ToString(C2_Metres(C2_BaseOf(clouds.l[i]) * 100)), "m", ")">>)
        /\ clouds = Lst(<<Bkn050>>) =>
              /\ Contains(clouds_result.text, CLOUD_COVER[<<"B","K","N">>])
              /\ Contains(clouds_result.text, <<"5000", "ft", "(", "1524", "m", ")">>)

----------------------------------------------------------------------------
(* parse_metar *)

\* The record holds the station name and code and no other key.
C3_OnlyStation ==
    /\ metar_data.ty = "dict"
    /\ \A f \in Fields : (metar_data.l[f].ty # "absent") <=> (f \in {"name", "icaoId"})

C3_StationLine ==
    <<"L_station">> \o Render(metar_data.l["name"]) \o <<"(">>
        \o Render(metar_data.l["icaoId"]) \o <<")">>

C4_Malformed ==
    { <<"reportTime", "L_time", Str(<<"y","e","s","t","e","r","d","a","y">>)>>,
      <<"clouds", "L_cloud", Lst(<<Layer(Str(<<"B","K","N">>), Str(<<"X">>), Absent)>>)>>,
      <<"clouds", "L_cloud", Lst(<<Bkn050, Str(<<"j","u","n","k">>)>>)>>,
      <<"altim", "L_altim", Str(<<"a","b","c">>)>> }

C4_TypicalReport == ParseMetar(Dict(TypicalRecord)).text

\* C4: a malformed value in one field degrades that field alone; the report
\* still has the line of every other present field and is never the generic
\* parse-failure text.
C4_OnlyThatFieldDegrades ==
    (pc = "metar_done" /\ metar_data.ty = "dict") =>
        \A m \in C4_Malformed :
            metar_data.l = [TypicalRecord EXCEPT ![m[1]] = m[3]] =>
                /\ metar_result.text # ParseFailure
                /\ \A i \in 1..Len(C4_TypicalReport) :
                      C4_TypicalReport[i][1] # m[2]
                          => C4_TypicalReport[i] \in Range(metar_result.text)

\* A fault in the shape of the record: no dict at all, clouds that are not a
\* list of dicts, a weather string that is no str, a pressure that is no number.
C5_StructuralFault ==
    \/ metar_data.ty # "dict"
    \/ /\ metar_data.ty = "dict"
       /\ \/ /\ metar_data.l["clouds"].ty = "list"
             /\ \E i \in 1..Len(metar_data.l["clouds"].l) :
                   metar_data.l["clouds"].l[i].ty # "dict"
          \/ metar_data.l["wxString"].ty \in {"int", "float", "list"}
             /\ Truthy(metar_data.l["wxString"])
          \/ metar_data.l["altim"].ty \in {"str", "null", "list"}
             /\ ~IsText(metar_data.l["altim"], NA)

\* C5: parse_metar returns a text for every record; no exception leaves it,
\* and a structural fault gives the one generic parse-failure text.
C5_AlwaysAText ==
    pc = "metar_done" =>
        /\ ~metar_result.raised
        /\ metar_result.text # <<>>
        /\ C5_StructuralFault => metar_result.text = ParseFailure

C5_Witness ==
    /\ pc = "metar_done"
    /\ metar_data.ty = "dict"
    /\ C5_StructuralFault
    /\ metar_data.l["name"].ty = "str"
    /\ metar_result.text = ParseFailure

\* The text holds an A followed by exactly four digits.
C8_ExactlyFour(t) ==
    \E i \in 1..Len(t) :
        /\ t[i] = "A"
        /\ i + 4 <= Len(t)
        /\ \A j \in 1..4 : t[i + j] \in Digits
        /\ i + 5 <= Len(t) => t[i + 5] \notin Digits

\* C8: with the pressure present, the "A" notation is appended if and only if
\* the raw text holds an A followed by exactly four digits; an A run of five
\* or more digits alone gives the primary notation only.
C8_SecondaryIffExactlyFour ==
    ( /\ pc = "metar_done"
      /\ metar_data.ty = "dict"
      /\ metar_data.l["altim"].ty \in {"int", "float"}
      /\ metar_data.l["rawOb"].ty \in {"str", "absent"}
      /\ metar_result.text # ParseFailure ) =>
        /\ LinesOf(metar_result.text, "L_altim") # {}
        /\ \A i \in LinesOf(metar_result.text, "L_altim") :
              ("A" \in Range(metar_result.text[i]))
                  <=> C8_ExactlyFour(metar_data.l["rawOb"].s)

----------------------------------------------------------------------------
(* the metar command *)

C9_Ended == pc \in {"cmd_done", "cmd_raised"}

\* C9: the fetch starts only after the code passed the format check,
\* parse_metar runs only after a fetch that reported success, a failed check
\* or a failed fetch ends in an error reply without parse_metar, and every
\* command produces exactly one reply.
C9_OneReplyPerCommand ==
    /\ "fetch" \in Range(events) => ValidIcao(icao_code) /\ events[1] = "valid"
    /\ "parse_metar" \in Range(events) => "fetched" \in Range(events) /\ result.success
    /\ (C9_Ended /\ ("invalid" \in Range(events)
                     \/ ("fetch" \in Range(events) /\ ~result.success)))
          => /\ "parse_metar" \notin Range(events)
             /\ Len(replies) = 1
             /\ replies[1].kind = "error"
    /\ C9_Ended => Len(replies) = 1

====
